---- MODULE Spec2Model ----
(***************************************************************************)
(* Progressive graph expansion engine of AiR-Helix-View: the client-side   *)
(* incremental loader of frontend/src/ImageSimilarityExplorer.js (React    *)
(* component state, the loadQueue / processingQueue refs, processLoadQueue,*)
(* the viewport and click handlers, the initial-load effect, clearGraph).  *)
(*                                                                         *)
(* React semantics kept by the model: a handler created by useCallback     *)
(* reads the graphData / expandedNodes of the render that created it; refs *)
(* (loadQueue, processingQueue) are read and written in place; functional  *)
(* state updates (setExpandedNodes(prev => ...)) act on the current state. *)
(***************************************************************************)
EXTENDS Integers, Sequences, FiniteSets, TLC

\* ------------------------------------------------------------------ bounds
NumImages == 4
MaxNodesLimit == 3
NeighborLimit == 2
LimitPerLevel == 1
MaxQueue == 2
MaxLoads == 1
MaxPending == 1
MaxResets == 1
MaxClicks == 2

\* ------------------------------------------------------- program constants
NeighborDepth == 2
ViewportBatch == 3

NodeIds == 1..NumImages
NoLevel == 0 - 1
NoNode == 0

\* ------------------------------------------------------------ sequences
Range(s) == {s[i] : i \in DOMAIN s}

Prefix(s, n) == SubSeq(s, 1, IF Len(s) < n THEN Len(s) ELSE n)

Ids(nodes) == {nodes[i].id : i \in DOMAIN nodes}

NoDupIds(s) == \A i, j \in DOMAIN s : s[i].id = s[j].id => i = j

NoDup(s) == \A i, j \in DOMAIN s : s[i] = s[j] => i = j

\* --------------------------------------------------- similarity store
\* SimilarityStore: the neighbours of each image, ranked by weight.
Store ==
  << <<2>>, <<3, 4, 1>>, <<2, 4>>, <<2, 3>> >>

Ranked(n) == IF n \in DOMAIN Store THEN Store[n] ELSE << >>

Node(n, c, l) == [id |-> n, isCenter |-> c, level |-> l]

Edge(s, t) == [id |-> <<s, t>>, source |-> s, target |-> t]

\* GET /neighbors?image_path=n&limit=NeighborLimit
NeighborsResponse(n) ==
  LET nb == Prefix(Ranked(n), NeighborLimit)
  IN  [nodes |-> <<Node(n, TRUE, NoLevel)>> \o [i \in DOMAIN nb |-> Node(nb[i], FALSE, NoLevel)],
       edges |-> [i \in DOMAIN nb |-> Edge(n, nb[i])]]

EmptyGraph == [nodes |-> << >>, links |-> << >>]

\* mergeGraphData with the existing-id filters left out.
mergeGraphDataUnfiltered(currentData, newData) ==
  [nodes |-> currentData.nodes \o newData.nodes,
   links |-> currentData.links \o newData.edges]

\* ------------------------------------------------------------ merge
\* mergeGraphData(currentData, newData)
mergeGraphData(currentData, newData) ==
  LET newLinks == newData.edges
      existingNodeIds == Ids(currentData.nodes)
      existingLinkIds == Ids(currentData.links)
      NewNode(n) == n.id \notin existingNodeIds
      NewLink(l) == l.id \notin existingLinkIds
      filteredNewNodes == SelectSeq(newData.nodes, NewNode)
      filteredNewLinks == SelectSeq(newLinks, NewLink)
  IN  [nodes |-> currentData.nodes \o filteredNewNodes,
       links |-> currentData.links \o filteredNewLinks]

\* -------------------------------------------------------- traversal
SortedSeq(S) ==
  LET RECURSIVE Build(_)
      Build(T) == IF T = {} THEN << >>
                  ELSE LET m == CHOOSE x \in T : \A y \in T : x <= y
                       IN  <<m>> \o Build(T \ {m})
  IN  Build(S)

\* The edges of acc and, unless the pair is joined already, the edge from parent to n.
WithEdge(acc, parent, n) ==
  IF \E e \in Range(acc.edges) : {e.source, e.target} = {parent, n} THEN acc.edges
  ELSE Append(acc.edges, Edge(parent, n))

\* ExpandParent without the stop at maxNodes.
RECURSIVE ExpandParentUncapped(_, _, _, _, _, _, _)
ExpandParentUncapped(acc, parent, cands, taken, L, limit, maxNodes) ==
  IF cands = << >> \/ taken >= limit THEN acc
  ELSE IF Head(cands) \in Ids(acc.nodes)
       THEN ExpandParentUncapped([acc EXCEPT !.edges = WithEdge(acc, parent, Head(cands))],
                                 parent, Tail(cands), taken, L, limit, maxNodes)
       ELSE ExpandParentUncapped(
              [nodes |-> Append(acc.nodes, Node(Head(cands), FALSE, L)),
               edges |-> Append(acc.edges, Edge(parent, Head(cands)))],
              parent, Tail(cands), taken + 1, L, limit, maxNodes)

\* ExpandParent without the stop at limit accepted neighbours.
RECURSIVE ExpandParentUnlimited(_, _, _, _, _, _, _)
ExpandParentUnlimited(acc, parent, cands, taken, L, limit, maxNodes) ==
  IF cands = << >> \/ Len(acc.nodes) >= maxNodes THEN acc
  ELSE IF Head(cands) \in Ids(acc.nodes)
       THEN ExpandParentUnlimited([acc EXCEPT !.edges = WithEdge(acc, parent, Head(cands))],
                                  parent, Tail(cands), taken, L, limit, maxNodes)
       ELSE ExpandParentUnlimited(
              [nodes |-> Append(acc.nodes, Node(Head(cands), FALSE, L)),
               edges |-> Append(acc.edges, Edge(parent, Head(cands)))],
              parent, Tail(cands), taken + 1, L, limit, maxNodes)

\* One parent of level L - 1: its ranked neighbours, skipping visited ones but
\* for a new edge to the parent, up to limit accepted, stopping once maxNodes
\* nodes are accumulated.
RECURSIVE ExpandParent(_, _, _, _, _, _, _)
ExpandParent(acc, parent, cands, taken, L, limit, maxNodes) ==
  IF cands = << >> \/ taken >= limit \/ Len(acc.nodes) >= maxNodes THEN acc
  ELSE IF Head(cands) \in Ids(acc.nodes)
       THEN ExpandParent([acc EXCEPT !.edges = WithEdge(acc, parent, Head(cands))],
                         parent, Tail(cands), taken, L, limit, maxNodes)
       ELSE ExpandParent(
              [nodes |-> Append(acc.nodes, Node(Head(cands), FALSE, L)),
               edges |-> Append(acc.edges, Edge(parent, Head(cands)))],
              parent, Tail(cands), taken + 1, L, limit, maxNodes)

RECURSIVE ExpandLevel(_, _, _, _, _)
ExpandLevel(acc, parents, L, limit, maxNodes) ==
  IF parents = << >> THEN acc
  ELSE ExpandLevel(
         ExpandParent(acc, Head(parents), Ranked(Head(parents)), 0, L, limit, maxNodes),
         Tail(parents), L, limit, maxNodes)

RECURSIVE TraverseFrom(_, _, _, _, _)
TraverseFrom(acc, L, depth, limit, maxNodes) ==
  IF L > depth THEN acc
  ELSE LET parents ==
             SortedSeq({acc.nodes[i].id : i \in {j \in DOMAIN acc.nodes : acc.nodes[j].level = L - 1}})
       IN  TraverseFrom(ExpandLevel(acc, parents, L, limit, maxNodes), L + 1, depth, limit, maxNodes)

\* Traverse(center, threshold, depth, limitPerLevel, maxNodes)
Traverse(center, depth, limit, maxNodes) ==
  TraverseFrom([nodes |-> <<Node(center, TRUE, 0)>>, edges |-> << >>], 1, depth, limit, maxNodes)

\* GET /extended-neighbors?image_path=n&depth=..&limit_per_level=..&max_nodes=..
ExtendedNeighborsResponse(n) == Traverse(n, NeighborDepth, LimitPerLevel, MaxNodesLimit)

\* ------------------------------------------------------------- state
VARIABLES
  graphData,            \* useState: {nodes, links}
  centerImage,          \* useState
  loading,              \* useState
  error,                \* useState
  openModal,            \* useState
  selectedNode,         \* useState
  expandedNodes,        \* useState: Set of node ids
  isAutoLoadingEnabled, \* useState
  loadingMore,          \* useState
  extendedMode,         \* useState
  loadQueue,            \* useRef: array of node ids
  processingQueue,      \* useRef: boolean
  clickTimeoutRef,      \* useRef: the node of the pending single-click timer
  clickNodeRef,         \* useRef (part_004): id of the node clicked last
  clickCountRef,        \* useRef (part_004): clicks counted on that node
  clickTimerRef,        \* useRef (part_004): the node of the pending click timer
  clickSeq,             \* the click sequence under way or ended last, and what it emitted
  mergeArgs,            \* the function under study (a merge or Traverse) and its arguments
  merged,               \* the graph, then the results of merging; or the traversal's result
  tasks,                \* processLoadQueue invocations suspended at await fetch or in setTimeout
  loads,                \* fetchData invocations suspended at an await
  viewportTimers,       \* debounced handleViewportChange calls not yet run
  generation,           \* number of runs of the fetchData effect
  last                  \* the handler that ran last, and the node it was given

vars == <<graphData, centerImage, loading, error, openModal, selectedNode, expandedNodes,
          isAutoLoadingEnabled, loadingMore, extendedMode, loadQueue, processingQueue,
          clickTimeoutRef, clickNodeRef, clickCountRef, clickTimerRef, clickSeq, mergeArgs,
          merged, tasks, loads, viewportTimers, generation, last>>

mergeVars == <<mergeArgs, merged>>

\* The click-counting refs of the part_004 variant.
clickRefs == <<clickNodeRef, clickCountRef, clickTimerRef>>

Null == Node(NoNode, FALSE, NoLevel)

\* The graphData and expandedNodes a processLoadQueue instance closes over.
Closure(r) == [graphData |-> r.graphData, expandedNodes |-> r.expandedNodes]

\* A suspended processLoadQueue call: awaiting its fetch (kind "fetch") or in
\* setTimeout (kind "timer"); gen and center are the generation and the
\* centerImage when it dequeued nodeId, result what became of that item.
Task(kind, nodeId, cl, result) ==
  [kind |-> kind, nodeId |-> nodeId, cl |-> cl, gen |-> 0, center |-> NoNode,
   result |-> result]

NoTask == Task("none", NoNode, [graphData |-> EmptyGraph, expandedNodes |-> {}], "none")

\* The values a handler created in the current render closes over.
Render == [graphData |-> graphData, expandedNodes |-> expandedNodes,
           isAutoLoadingEnabled |-> isAutoLoadingEnabled, extendedMode |-> extendedMode]

Op(op, node) == [op |-> op, node |-> node]

RemoveAt(s, i) == SubSeq(s, 1, i - 1) \o SubSeq(s, i + 1, Len(s))

\* nodes.find(n => n.isCenter)
FindCenter(nodes) ==
  LET c == {i \in DOMAIN nodes : nodes[i].isCenter}
  IN  IF c = {} THEN Null ELSE nodes[CHOOSE i \in c : \A j \in c : i <= j]

\* ----------------------------------------------- the initial-load effect
\* fetchData up to its first await: the Reset of the client.
fetchDataStart(center, extended) ==
  /\ loading' = TRUE
  /\ error' = FALSE
  /\ expandedNodes' = {}
  /\ loadQueue' = << >>
  /\ loads' = Append(loads, [center |-> center, extended |-> extended, stage |-> "fetch",
                             data |-> EmptyGraph])
  /\ generation' = generation + 1

\* A click sequence as the user produces it: the node clicked, the clicks made on it while the
\* sequence was under way (counted up to MaxClicks), whether it is still under way, the
\* events ("select", "expand") the handlers emitted for it, and the node of the sequence
\* it cut short, if it did.
NoClicks == [node |-> NoNode, clicks |-> 0, open |-> FALSE, events |-> << >>,
             replaced |-> NoNode]

Clicked(seq, id) ==
  IF seq.open /\ seq.node = id
  THEN [seq EXCEPT !.clicks = IF @ < MaxClicks THEN @ + 1 ELSE @]
  ELSE [node |-> id, clicks |-> 1, open |-> TRUE, events |-> << >>,
        replaced |-> IF seq.open THEN seq.node ELSE NoNode]

Emitted(seq, id, event) ==
  IF seq.node = id
  THEN [seq EXCEPT !.open = FALSE, !.events = Append(@, event)]
  ELSE seq

Ended(seq) == [seq EXCEPT !.open = FALSE]

InitClient ==
  /\ graphData = EmptyGraph
  /\ centerImage = 1
  /\ loading = TRUE
  /\ error = FALSE
  /\ openModal = FALSE
  /\ selectedNode = Null
  /\ expandedNodes = {}
  /\ isAutoLoadingEnabled = TRUE
  /\ loadingMore = FALSE
  /\ extendedMode = TRUE
  /\ loadQueue = << >>
  /\ processingQueue = FALSE
  /\ clickTimeoutRef = Null
  /\ clickNodeRef = NoNode
  /\ clickCountRef = 0
  /\ clickTimerRef = Null
  /\ clickSeq = NoClicks
  /\ tasks = << >>
  /\ loads = <<[center |-> 1, extended |-> TRUE, stage |-> "fetch", data |-> EmptyGraph]>>
  /\ viewportTimers = {}
  /\ generation = 1
  /\ last = Op("mount", NoNode)

NoData == [nodes |-> << >>, edges |-> << >>]

Init ==
  /\ InitClient
  /\ mergeArgs = [fn |-> "none", currentData |-> EmptyGraph, newData |-> NoData]
  /\ merged = << >>

\* processLoadQueue whose skip of an expanded or missing node sets no timer.
processLoadQueueNoTimer(cl, q) ==
  IF Len(q) = 0
  THEN [queue |-> q, processing |-> FALSE, loadingMore |-> FALSE, task |-> NoTask]
  ELSE IF Len(cl.graphData.nodes) >= MaxNodesLimit
  THEN [queue |-> << >>, processing |-> FALSE, loadingMore |-> FALSE, task |-> NoTask]
  ELSE LET nodeId == Head(q)
       IN  IF nodeId \in cl.expandedNodes \/ nodeId \notin Ids(cl.graphData.nodes)
           THEN [queue |-> Tail(q), processing |-> TRUE, loadingMore |-> FALSE,
                 task |-> NoTask]
           ELSE [queue |-> Tail(q), processing |-> TRUE, loadingMore |-> TRUE,
                 task |-> Task("fetch", nodeId, cl, "none")]

\* --------------------------------------------------- processLoadQueue
\* One call of the processLoadQueue instance with closure cl on queue q, up to
\* its return or its await: the queue and flags it leaves, and the fetch or
\* timer it leaves pending.
processLoadQueue(cl, q) ==
  IF Len(q) = 0
  THEN [queue |-> q, processing |-> FALSE, loadingMore |-> FALSE, task |-> NoTask]
  ELSE IF Len(cl.graphData.nodes) >= MaxNodesLimit
  THEN [queue |-> << >>, processing |-> FALSE, loadingMore |-> FALSE, task |-> NoTask]
  ELSE LET nodeId == Head(q)
       IN  IF nodeId \in cl.expandedNodes \/ nodeId \notin Ids(cl.graphData.nodes)
           THEN [queue |-> Tail(q), processing |-> TRUE, loadingMore |-> FALSE,
                 task |-> Task("timer", nodeId, cl, "skipped")]
           ELSE [queue |-> Tail(q), processing |-> TRUE, loadingMore |-> TRUE,
                 task |-> Task("fetch", nodeId, cl, "none")]

\* The refs, state and pending work after a call of processLoadQueue.
Run(r, ts) ==
  /\ loadQueue' = r.queue
  /\ processingQueue' = r.processing
  /\ loadingMore' = r.loadingMore
  /\ tasks' = IF r.task.kind = "none" THEN ts
              ELSE Append(ts, [r.task EXCEPT !.gen = generation, !.center = centerImage])

\* FetchComplete with a catch block that puts the node back on the queue.
FetchCompleteRequeue ==
  \E i \in DOMAIN tasks, ok \in BOOLEAN :
    /\ tasks[i].kind = "fetch"
    /\ IF ok
       THEN /\ graphData' = mergeGraphData(tasks[i].cl.graphData, NeighborsResponse(tasks[i].nodeId))
            /\ expandedNodes' = expandedNodes \cup {tasks[i].nodeId}
            /\ loadQueue' = loadQueue
       ELSE /\ loadQueue' = Append(loadQueue, tasks[i].nodeId)
            /\ UNCHANGED <<graphData, expandedNodes>>
    /\ loadingMore' = FALSE
    /\ tasks' = [tasks EXCEPT ![i].kind = "timer",
                               ![i].result = IF ok THEN "merged" ELSE "failed"]
    /\ last' = Op("FetchComplete", NoNode)
    /\ UNCHANGED <<centerImage, loading, error, openModal, selectedNode, isAutoLoadingEnabled,
                   extendedMode, processingQueue, clickTimeoutRef, clickRefs, clickSeq, mergeVars, loads,
                   viewportTimers, generation>>

\* The await fetch of processLoadQueue resolves: merge on an OK response,
\* the catch block otherwise; then the 300 ms continuation timer.
FetchComplete ==
  \E i \in DOMAIN tasks, ok \in BOOLEAN :
    /\ tasks[i].kind = "fetch"
    /\ IF ok
       THEN /\ graphData' = mergeGraphData(tasks[i].cl.graphData, NeighborsResponse(tasks[i].nodeId))
            /\ expandedNodes' = expandedNodes \cup {tasks[i].nodeId}
       ELSE UNCHANGED <<graphData, expandedNodes>>
    /\ loadingMore' = FALSE
    /\ tasks' = [tasks EXCEPT ![i].kind = "timer",
                               ![i].result = IF ok THEN "merged" ELSE "failed"]
    /\ last' = Op("FetchComplete", NoNode)
    /\ UNCHANGED <<centerImage, loading, error, openModal, selectedNode, isAutoLoadingEnabled,
                   extendedMode, loadQueue, processingQueue, clickTimeoutRef, clickRefs, clickSeq, mergeVars, loads,
                   viewportTimers, generation>>

\* setTimeout(() => processLoadQueue(), ..) fires.
TimerFire ==
  \E i \in DOMAIN tasks :
    /\ tasks[i].kind = "timer"
    /\ Run(processLoadQueue(tasks[i].cl, loadQueue), RemoveAt(tasks, i))
    /\ last' = Op("TimerFire", NoNode)
    /\ UNCHANGED <<graphData, centerImage, loading, error, openModal, selectedNode, expandedNodes,
                   isAutoLoadingEnabled, extendedMode, clickTimeoutRef, clickRefs, clickSeq, mergeVars, loads, viewportTimers,
                   generation>>

\* ------------------------------------------------------------ viewport
\* onZoomEnd / onNodeDragEnd / the graphData effect: the debounced handler of
\* the current render is armed.
ViewportEvent ==
  /\ Cardinality(viewportTimers) < MaxPending
  /\ Render \notin viewportTimers
  /\ viewportTimers' = viewportTimers \cup {Render}
  /\ last' = Op("ViewportEvent", NoNode)
  /\ UNCHANGED <<graphData, centerImage, loading, error, openModal, selectedNode, expandedNodes,
                 isAutoLoadingEnabled, loadingMore, extendedMode, loadQueue, processingQueue,
                 clickTimeoutRef, clickRefs, clickSeq, mergeVars, tasks, loads, generation>>

\* The ids handleViewportChange of render r appends, visible being the ids
\* inside the padded bounds.
nodesToQueue(r, visible, q) ==
  LET Visible(n) == n.id \in visible
      Unexpanded(n) == n.id \notin r.expandedNodes /\ n.id \notin Range(q)
      unexpandedNodes == SelectSeq(SelectSeq(r.graphData.nodes, Visible), Unexpanded)
      batch == Prefix(unexpandedNodes, ViewportBatch)
  IN  IF r.isAutoLoadingEnabled /\ ~r.extendedMode /\ Len(r.graphData.nodes) > 0
      THEN [i \in DOMAIN batch |-> batch[i].id]
      ELSE << >>

\* handleViewportChange of render r, with the ids in visible inside the bounds.
handleViewportChange(r, visible) ==
  LET add == nodesToQueue(r, visible, loadQueue)
  IN  /\ visible \subseteq Ids(r.graphData.nodes)
      /\ Len(loadQueue) + Len(add) <= MaxQueue
      /\ IF add # << >> /\ ~processingQueue
         THEN Run(processLoadQueue(Closure(r), loadQueue \o add), tasks)
         ELSE /\ loadQueue' = loadQueue \o add
              /\ UNCHANGED <<processingQueue, loadingMore, tasks>>
      /\ last' = Op("handleViewportChange", NoNode)
      /\ UNCHANGED <<graphData, centerImage, loading, error, openModal, selectedNode,
                     expandedNodes, isAutoLoadingEnabled, extendedMode, clickTimeoutRef, clickRefs, clickSeq, mergeVars,
                     loads, generation>>

\* The debounced handler runs in the render that armed it.
ViewportChange ==
  /\ \E visible \in SUBSET NodeIds : handleViewportChange(Render, visible)
  /\ UNCHANGED viewportTimers

\* The debounced handler of an earlier render runs.
ViewportTimer ==
  \E r \in viewportTimers :
    /\ \E visible \in SUBSET NodeIds : handleViewportChange(r, visible)
    /\ viewportTimers' = viewportTimers \ {r}

\* -------------------------------------------------------------- clicks
\* handleNodeClick that leaves a pending timer and its node in place.
handleNodeClickKeepTimer ==
  \E i \in DOMAIN graphData.nodes :
    /\ clickTimeoutRef' = IF clickTimeoutRef # Null THEN clickTimeoutRef ELSE graphData.nodes[i]
    /\ clickSeq' = Clicked(clickSeq, graphData.nodes[i].id)
    /\ UNCHANGED <<clickRefs, mergeVars>>
    /\ last' = Op("handleNodeClick", graphData.nodes[i].id)
    /\ UNCHANGED <<graphData, centerImage, loading, error, openModal, selectedNode, expandedNodes,
                   isAutoLoadingEnabled, loadingMore, extendedMode, loadQueue, processingQueue,
                   tasks, loads, viewportTimers, generation>>

\* handleNodeClick(node)
handleNodeClick ==
  \E i \in DOMAIN graphData.nodes :
    /\ clickTimeoutRef' = graphData.nodes[i]
    /\ clickSeq' = Clicked(clickSeq, graphData.nodes[i].id)
    /\ UNCHANGED <<clickRefs, mergeVars>>
    /\ last' = Op("handleNodeClick", graphData.nodes[i].id)
    /\ UNCHANGED <<graphData, centerImage, loading, error, openModal, selectedNode, expandedNodes,
                   isAutoLoadingEnabled, loadingMore, extendedMode, loadQueue, processingQueue,
                   tasks, loads, viewportTimers, generation>>

\* The 750 ms timer of handleNodeClick fires.
ClickTimeout ==
  /\ clickTimeoutRef # Null
  /\ selectedNode' = clickTimeoutRef
  /\ openModal' = TRUE
  /\ clickTimeoutRef' = Null
  /\ clickSeq' = Emitted(clickSeq, clickTimeoutRef.id, "select")
  /\ UNCHANGED <<clickRefs, mergeVars>>
  /\ last' = Op("ClickTimeout", clickTimeoutRef.id)
  /\ UNCHANGED <<graphData, centerImage, loading, error, expandedNodes, isAutoLoadingEnabled,
                 loadingMore, extendedMode, loadQueue, processingQueue, tasks, loads,
                 viewportTimers, generation>>

\* handleNodeDoubleClick with push in place of unshift.
handleNodeDoubleClickPush ==
  \E i \in DOMAIN graphData.nodes :
    LET nodeId == graphData.nodes[i].id
    IN  /\ Len(loadQueue) < MaxQueue
        /\ clickTimeoutRef' = Null
        /\ clickSeq' = Emitted(clickSeq, nodeId, "expand")
        /\ UNCHANGED <<clickRefs, mergeVars>>
        /\ IF ~processingQueue
           THEN Run(processLoadQueue(Closure(Render), loadQueue \o <<nodeId>>), tasks)
           ELSE /\ loadQueue' = loadQueue \o <<nodeId>>
                /\ UNCHANGED <<processingQueue, loadingMore, tasks>>
        /\ last' = Op("handleNodeDoubleClick", nodeId)
        /\ UNCHANGED <<graphData, centerImage, loading, error, openModal, selectedNode,
                       expandedNodes, isAutoLoadingEnabled, extendedMode, loads, viewportTimers,
                       generation>>

\* handleNodeDoubleClick(node)
handleNodeDoubleClick ==
  \E i \in DOMAIN graphData.nodes :
    LET nodeId == graphData.nodes[i].id
    IN  /\ Len(loadQueue) < MaxQueue
        /\ clickTimeoutRef' = Null
        /\ clickSeq' = Emitted(clickSeq, nodeId, "expand")
        /\ UNCHANGED <<clickRefs, mergeVars>>
        /\ IF ~processingQueue
           THEN Run(processLoadQueue(Closure(Render), <<nodeId>> \o loadQueue), tasks)
           ELSE /\ loadQueue' = <<nodeId>> \o loadQueue
                /\ UNCHANGED <<processingQueue, loadingMore, tasks>>
        /\ last' = Op("handleNodeDoubleClick", nodeId)
        /\ UNCHANGED <<graphData, centerImage, loading, error, openModal, selectedNode,
                       expandedNodes, isAutoLoadingEnabled, extendedMode, loads, viewportTimers,
                       generation>>

\* Dialog onOpenChange(false)
CloseModal ==
  /\ openModal
  /\ openModal' = FALSE
  /\ last' = Op("CloseModal", NoNode)
  /\ UNCHANGED <<graphData, centerImage, loading, error, selectedNode, expandedNodes,
                 isAutoLoadingEnabled, loadingMore, extendedMode, loadQueue, processingQueue,
                 clickTimeoutRef, clickRefs, clickSeq, mergeVars, tasks, loads, viewportTimers, generation>>

\* ------------------------------------------------ resets of the session
CanReset == generation <= MaxResets /\ Len(loads) < MaxLoads

\* handleSetAsCenterImage, and the fetchData effect the new centerImage starts.
handleSetAsCenterImage ==
  /\ openModal
  /\ selectedNode # Null
  /\ ~selectedNode.isCenter
  /\ selectedNode.id # centerImage
  /\ CanReset
  /\ centerImage' = selectedNode.id
  /\ openModal' = FALSE
  /\ fetchDataStart(selectedNode.id, extendedMode)
  /\ last' = Op("handleSetAsCenterImage", NoNode)
  /\ UNCHANGED <<graphData, selectedNode, isAutoLoadingEnabled, loadingMore, extendedMode,
                 processingQueue, clickTimeoutRef, clickRefs, clickSeq, mergeVars, tasks, viewportTimers>>

\* handleSetAsCenterImage with the node the detail dialog shows as selectedNode,
\* and the fetchData effect the new centerImage starts.
SetAsCenterImage ==
  \E i \in DOMAIN graphData.nodes :
    LET node == graphData.nodes[i]
    IN  /\ ~node.isCenter
        /\ node.id # centerImage
        /\ CanReset
        /\ centerImage' = node.id
        /\ fetchDataStart(node.id, extendedMode)
        /\ last' = Op("handleSetAsCenterImage", NoNode)
        /\ UNCHANGED <<graphData, openModal, selectedNode, isAutoLoadingEnabled, loadingMore,
                       extendedMode, processingQueue, clickTimeoutRef, clickRefs, clickSeq, mergeVars, tasks, viewportTimers>>

\* The extended-mode checkbox, and the fetchData effect the new mode starts.
ToggleExtendedMode ==
  /\ CanReset
  /\ extendedMode' = ~extendedMode
  /\ fetchDataStart(centerImage, ~extendedMode)
  /\ last' = Op("ToggleExtendedMode", NoNode)
  /\ UNCHANGED <<graphData, centerImage, openModal, selectedNode, isAutoLoadingEnabled,
                 loadingMore, processingQueue, clickTimeoutRef, clickRefs, clickSeq, mergeVars, tasks, viewportTimers>>

\* The response of the initial load as fetchData installs it.
InitialGraph(apiData) ==
  [nodes |-> [i \in DOMAIN apiData.nodes |->
                [apiData.nodes[i] EXCEPT !.level = IF @ = NoLevel THEN 0 ELSE @]],
   links |-> apiData.edges]

\* LoadResponse whose catch block calls fetchData again.
LoadResponseRetry ==
  \E i \in DOMAIN loads, ok \in BOOLEAN :
    LET apiData == IF loads[i].extended THEN ExtendedNeighborsResponse(loads[i].center)
                   ELSE NeighborsResponse(loads[i].center)
        centerNode == FindCenter(apiData.nodes)
    IN  /\ loads[i].stage = "fetch"
        /\ IF ok
           THEN /\ expandedNodes' = IF centerNode # Null THEN {centerNode.id} ELSE expandedNodes
                /\ loads' = [loads EXCEPT ![i].stage = "preload", ![i].data = InitialGraph(apiData)]
                /\ UNCHANGED <<error, loading>>
           ELSE /\ error' = TRUE
                /\ loading' = TRUE
                /\ loads' = loads
                /\ UNCHANGED expandedNodes
        /\ last' = Op("LoadResponse", NoNode)
        /\ UNCHANGED <<graphData, centerImage, openModal, selectedNode, isAutoLoadingEnabled,
                       loadingMore, extendedMode, loadQueue, processingQueue, clickTimeoutRef, clickRefs, clickSeq, mergeVars,
                       tasks, viewportTimers, generation>>

\* The await fetch of fetchData resolves: the center is marked expanded and
\* the image preloads start, or the catch and finally blocks run.
LoadResponse ==
  \E i \in DOMAIN loads, ok \in BOOLEAN :
    LET apiData == IF loads[i].extended THEN ExtendedNeighborsResponse(loads[i].center)
                   ELSE NeighborsResponse(loads[i].center)
        centerNode == FindCenter(apiData.nodes)
    IN  /\ loads[i].stage = "fetch"
        /\ IF ok
           THEN /\ expandedNodes' = IF centerNode # Null THEN {centerNode.id} ELSE expandedNodes
                /\ loads' = [loads EXCEPT ![i].stage = "preload", ![i].data = InitialGraph(apiData)]
                /\ UNCHANGED <<error, loading>>
           ELSE /\ error' = TRUE
                /\ loading' = FALSE
                /\ loads' = RemoveAt(loads, i)
                /\ UNCHANGED expandedNodes
        /\ last' = Op("LoadResponse", NoNode)
        /\ UNCHANGED <<graphData, centerImage, openModal, selectedNode, isAutoLoadingEnabled,
                       loadingMore, extendedMode, loadQueue, processingQueue, clickTimeoutRef, clickRefs, clickSeq, mergeVars,
                       tasks, viewportTimers, generation>>

\* await Promise.allSettled(preloadPromises) resolves: the graph is installed.
LoadInstall ==
  \E i \in DOMAIN loads :
    /\ loads[i].stage = "preload"
    /\ graphData' = loads[i].data
    /\ loading' = FALSE
    /\ loads' = RemoveAt(loads, i)
    /\ last' = Op("LoadInstall", NoNode)
    /\ UNCHANGED <<centerImage, error, openModal, selectedNode, expandedNodes,
                   isAutoLoadingEnabled, loadingMore, extendedMode, loadQueue, processingQueue,
                   clickTimeoutRef, clickRefs, clickSeq, mergeVars, tasks, viewportTimers, generation>>


\* ------------------------------------------------------------ controls
\* clearGraph dropping the links and keeping every node.
clearGraphKeepNodes ==
  LET centerNode == FindCenter(graphData.nodes)
  IN  /\ expandedNodes' = {}
      /\ loadQueue' = << >>
      /\ graphData' = IF centerNode # Null THEN [nodes |-> graphData.nodes, links |-> << >>]
                      ELSE graphData
      /\ last' = Op("clearGraph", NoNode)
      /\ UNCHANGED <<centerImage, loading, error, openModal, selectedNode, isAutoLoadingEnabled,
                     loadingMore, extendedMode, processingQueue, clickTimeoutRef, clickRefs,
                     clickSeq, mergeVars, tasks, loads, viewportTimers, generation>>

\* clearGraph keeping the links of the nodes it removes.
clearGraphKeepLinks ==
  LET centerNode == FindCenter(graphData.nodes)
  IN  /\ expandedNodes' = {}
      /\ loadQueue' = << >>
      /\ graphData' = IF centerNode # Null
                      THEN [nodes |-> <<centerNode>>, links |-> graphData.links]
                      ELSE graphData
      /\ last' = Op("clearGraph", NoNode)
      /\ UNCHANGED <<centerImage, loading, error, openModal, selectedNode, isAutoLoadingEnabled,
                     loadingMore, extendedMode, processingQueue, clickTimeoutRef, clickRefs,
                     clickSeq, mergeVars, tasks, loads, viewportTimers, generation>>

\* clearGraph
clearGraph ==
  LET centerNode == FindCenter(graphData.nodes)
  IN  /\ expandedNodes' = {}
      /\ loadQueue' = << >>
      /\ graphData' = IF centerNode # Null THEN [nodes |-> <<centerNode>>, links |-> << >>]
                      ELSE graphData
      /\ last' = Op("clearGraph", NoNode)
      /\ UNCHANGED <<centerImage, loading, error, openModal, selectedNode, isAutoLoadingEnabled,
                     loadingMore, extendedMode, processingQueue, clickTimeoutRef, clickRefs, clickSeq, mergeVars, tasks, loads,
                     viewportTimers, generation>>

\* toggleAutomaticLoading, and the effect that restarts an idle queue.
toggleAutomaticLoading ==
  /\ isAutoLoadingEnabled' = ~isAutoLoadingEnabled
  /\ IF ~isAutoLoadingEnabled /\ Len(loadQueue) > 0 /\ ~processingQueue
     THEN Run(processLoadQueue(Closure(Render), loadQueue), tasks)
     ELSE UNCHANGED <<loadQueue, processingQueue, loadingMore, tasks>>
  /\ last' = Op("toggleAutomaticLoading", NoNode)
  /\ UNCHANGED <<graphData, centerImage, loading, error, openModal, selectedNode, expandedNodes,
                 extendedMode, clickTimeoutRef, clickRefs, clickSeq, mergeVars, loads, viewportTimers, generation>>

Next ==
  \/ FetchComplete
  \/ TimerFire
  \/ ViewportChange
  \/ handleNodeDoubleClick
  \/ SetAsCenterImage
  \/ ToggleExtendedMode
  \/ LoadResponse
  \/ LoadInstall
  \/ clearGraph
  \/ toggleAutomaticLoading

Spec == Init /\ [][Next]_vars

\* Every issued fetch completes in the end and every timer set fires.
SpecLive == Spec /\ WF_vars(FetchComplete) /\ WF_vars(TimerFire)

\* ------------------------------------------------- the click callbacks
\* The click handlers of ImageSimilarityExplorer.js, driven by the graph
\* component's callbacks.

\* onNodeDoubleClick: the graph component reports a double click on the node whose second click
\* it has just delivered to onNodeClick.
NodeDoubleClick ==
  /\ clickSeq.open
  /\ clickSeq.clicks >= 2
  /\ handleNodeDoubleClick
  /\ last'.node = clickSeq.node

NextClick ==
  \/ LoadResponse
  \/ LoadInstall
  \/ FetchComplete
  \/ TimerFire
  \/ handleNodeClick
  \/ ClickTimeout
  \/ NodeDoubleClick
  \/ CloseModal
  \/ clearGraph

SpecClick == Init /\ [][NextClick]_vars

\* ------------------------------------------- overlapping initial loads
\* The fetchData effect run again while earlier runs are still awaiting.
MaxOverlap == 2

\* handleSetAsCenterImage with the node the detail dialog shows, while up to
\* MaxOverlap loads are pending.
SetAsCenterImageAgain ==
  \E i \in DOMAIN graphData.nodes :
    LET node == graphData.nodes[i]
    IN  /\ ~node.isCenter
        /\ node.id # centerImage
        /\ generation <= MaxOverlap
        /\ Len(loads) < MaxOverlap
        /\ centerImage' = node.id
        /\ fetchDataStart(node.id, extendedMode)
        /\ last' = Op("handleSetAsCenterImage", NoNode)
        /\ UNCHANGED <<graphData, openModal, selectedNode, isAutoLoadingEnabled, loadingMore,
                       extendedMode, processingQueue, clickTimeoutRef, clickRefs, clickSeq,
                       mergeVars, tasks, viewportTimers>>

NextLoads ==
  \/ LoadResponse
  \/ LoadInstall
  \/ SetAsCenterImageAgain
  \/ ToggleExtendedMode

SpecLoads == Init /\ [][NextLoads]_vars

\* ==================================================== the part_004 variant
\* src/unnamed/part_004 is the same component with a processLoadQueue that
\* continues from a finally block, an inline merge and click counting.
MaxTasks == 2

P4_NeighborDepth == 3
P4_ViewportBatch == 2
P4_BusyQueue == 5

P4_ExtendedNeighborsResponse(n) == Traverse(n, P4_NeighborDepth, LimitPerLevel, MaxNodesLimit)

\* The inline merge of processLoadQueue: each node and edge of data is pushed
\* unless the graph under construction already holds its id.
P4_merge(currentData, data) ==
  LET RECURSIVE AddNodes(_, _), AddLinks(_, _)
      AddNodes(acc, i) ==
        IF i > Len(data.nodes) THEN acc
        ELSE LET node == data.nodes[i]
             IN  AddNodes(IF node.id \in Ids(acc) THEN acc
                          ELSE Append(acc, Node(node.id, node.isCenter,
                                                IF node.level # NoLevel THEN node.level ELSE 1)),
                          i + 1)
      AddLinks(acc, i) ==
        IF i > Len(data.edges) THEN acc
        ELSE LET edge == data.edges[i]
             IN  AddLinks(IF edge.id \in Ids(acc) THEN acc ELSE Append(acc, edge), i + 1)
  IN  [nodes |-> AddNodes(currentData.nodes, 1), links |-> AddLinks(currentData.links, 1)]

\* One call of processLoadQueue with closure cl on queue q, up to its return
\* or its await, the finally block of an early return included: a skipped id
\* leaves the 50 ms timer and, when ids remain, the guarded 300 ms timer too.
P4_processLoadQueue(cl, q) ==
  IF Len(q) = 0
  THEN [queue |-> q, processing |-> FALSE, loadingMore |-> FALSE, tasks |-> << >>]
  ELSE IF Len(cl.graphData.nodes) >= MaxNodesLimit
  THEN [queue |-> << >>, processing |-> FALSE, loadingMore |-> FALSE, tasks |-> << >>]
  ELSE LET nodeId == Head(q)
       IN  IF nodeId \in cl.expandedNodes \/ nodeId \notin Ids(cl.graphData.nodes)
           THEN [queue |-> Tail(q), processing |-> Len(Tail(q)) > 0, loadingMore |-> FALSE,
                 tasks |-> <<Task("timer", nodeId, cl, "skipped")>> \o
                           (IF Len(Tail(q)) > 0 THEN <<Task("timerG", nodeId, cl, "skipped")>>
                            ELSE << >>)]
           ELSE [queue |-> Tail(q), processing |-> TRUE, loadingMore |-> TRUE,
                 tasks |-> <<Task("fetch", nodeId, cl, "none")>>]

P4_Run(r, ts) ==
  /\ Len(ts) + Len(r.tasks) <= MaxTasks
  /\ loadQueue' = r.queue
  /\ processingQueue' = r.processing
  /\ loadingMore' = r.loadingMore
  /\ tasks' = ts \o [i \in DOMAIN r.tasks |->
                       [r.tasks[i] EXCEPT !.gen = generation, !.center = centerImage]]

\* The await fetch of processLoadQueue resolves: the inline merge or the catch
\* block, then the finally block.
P4_FetchComplete ==
  \E i \in DOMAIN tasks, ok \in BOOLEAN :
    LET t == tasks[i]
    IN  /\ t.kind = "fetch"
        /\ IF ok
           THEN /\ expandedNodes' = expandedNodes \cup {t.nodeId}
                /\ graphData' = P4_merge(t.cl.graphData, NeighborsResponse(t.nodeId))
           ELSE UNCHANGED <<graphData, expandedNodes>>
        /\ loadingMore' = FALSE
        /\ IF Len(loadQueue) > 0
           THEN /\ tasks' = Append(RemoveAt(tasks, i),
                                   [t EXCEPT !.kind = "timerG",
                                             !.result = IF ok THEN "merged" ELSE "failed"])
                /\ UNCHANGED processingQueue
           ELSE /\ tasks' = RemoveAt(tasks, i)
                /\ processingQueue' = FALSE
        /\ last' = Op("FetchComplete", NoNode)
        /\ UNCHANGED <<centerImage, loading, error, openModal, selectedNode,
                       isAutoLoadingEnabled, extendedMode, loadQueue, clickTimeoutRef, clickRefs, clickSeq, mergeVars,
                       loads, viewportTimers, generation>>

\* Timer i is due: no timer set earlier with the same or a shorter delay is pending.
P4_Due(i) ==
  \A j \in 1..(i - 1) :
    \/ tasks[j].kind = "fetch"
    \/ tasks[i].kind = "timer" /\ tasks[j].kind = "timerG"

\* A timer of processLoadQueue fires: the 50 ms one calls processLoadQueue,
\* the 300 ms one of the finally block only while processingQueue is set.
P4_TimerFire ==
  \E i \in DOMAIN tasks :
    /\ tasks[i].kind \in {"timer", "timerG"}
    /\ P4_Due(i)
    /\ IF tasks[i].kind = "timer" \/ processingQueue
       THEN P4_Run(P4_processLoadQueue(tasks[i].cl, loadQueue), RemoveAt(tasks, i))
       ELSE /\ tasks' = RemoveAt(tasks, i)
            /\ UNCHANGED <<loadQueue, processingQueue, loadingMore>>
    /\ last' = Op("TimerFire", NoNode)
    /\ UNCHANGED <<graphData, centerImage, loading, error, openModal, selectedNode, expandedNodes,
                   isAutoLoadingEnabled, extendedMode, clickTimeoutRef, clickRefs, clickSeq, mergeVars, loads,
                   viewportTimers, generation>>

\* The ids handleViewportChange appends, visible being the ids inside the bounds.
P4_nodesToQueue(r, visible, q) ==
  LET Visible(n) == n.id \in visible
      Unexpanded(n) == n.id \notin r.expandedNodes /\ n.id \notin Range(q)
      unexpandedNodes == SelectSeq(SelectSeq(r.graphData.nodes, Visible), Unexpanded)
      batch == Prefix(unexpandedNodes, P4_ViewportBatch)
  IN  IF /\ r.isAutoLoadingEnabled /\ ~r.extendedMode /\ Len(r.graphData.nodes) > 0
         /\ ~(processingQueue /\ Len(q) > P4_BusyQueue)
      THEN [i \in DOMAIN batch |-> batch[i].id]
      ELSE << >>

\* The debounced handleViewportChange runs in the render that armed it.
P4_ViewportChange ==
  \E visible \in SUBSET Ids(graphData.nodes) :
    LET add == P4_nodesToQueue(Render, visible, loadQueue)
    IN  /\ Len(loadQueue) + Len(add) <= MaxQueue
        /\ IF add # << >> /\ ~processingQueue
           THEN P4_Run(P4_processLoadQueue(Closure(Render), loadQueue \o add), tasks)
           ELSE /\ loadQueue' = loadQueue \o add
                /\ UNCHANGED <<processingQueue, loadingMore, tasks>>
        /\ last' = Op("handleViewportChange", NoNode)
        /\ UNCHANGED <<graphData, centerImage, loading, error, openModal, selectedNode,
                       expandedNodes, isAutoLoadingEnabled, extendedMode, clickTimeoutRef,
                       clickRefs, clickSeq, mergeVars, loads, viewportTimers, generation>>

\* handleNodeClick(node): the second click on a node within the timer is a
\* double click and puts a node outside expandedNodes at the head of the queue.
P4_handleNodeClick ==
  \E i \in DOMAIN graphData.nodes :
    LET node == graphData.nodes[i]
        double == clickNodeRef = node.id /\ clickCountRef + 1 = 2
    IN  /\ double /\ node.id \notin expandedNodes => Len(loadQueue) < MaxQueue
        /\ IF double /\ node.id \notin expandedNodes
           THEN IF ~processingQueue
                THEN P4_Run(P4_processLoadQueue(Closure(Render), <<node.id>> \o loadQueue), tasks)
                ELSE /\ loadQueue' = <<node.id>> \o loadQueue
                     /\ UNCHANGED <<processingQueue, loadingMore, tasks>>
           ELSE UNCHANGED <<loadQueue, processingQueue, loadingMore, tasks>>
        /\ IF double
           THEN /\ clickNodeRef' = NoNode
                /\ clickCountRef' = 0
                /\ clickTimerRef' = Null
           ELSE /\ clickNodeRef' = node.id
                /\ clickCountRef' = IF clickNodeRef = node.id THEN clickCountRef + 1 ELSE 1
                /\ clickTimerRef' = node
        /\ clickSeq' = IF double THEN Emitted(Clicked(clickSeq, node.id), node.id, "expand")
                       ELSE Clicked(clickSeq, node.id)
        /\ last' = Op(IF double THEN "doubleClick" ELSE "handleNodeClick", node.id)
        /\ UNCHANGED mergeVars
        /\ UNCHANGED <<graphData, centerImage, loading, error, openModal, selectedNode,
                       expandedNodes, isAutoLoadingEnabled, extendedMode, clickTimeoutRef, loads,
                       viewportTimers, generation>>

\* The timer callback without its setSelectedNode / setOpenModal.
P4_ClickTimerSilent ==
  /\ clickTimerRef # Null
  /\ clickNodeRef' = NoNode
  /\ clickCountRef' = 0
  /\ clickTimerRef' = Null
  /\ clickSeq' = Ended(clickSeq)
  /\ last' = Op("ClickTimer", NoNode)
  /\ UNCHANGED mergeVars
  /\ UNCHANGED <<graphData, centerImage, loading, error, openModal, selectedNode, expandedNodes,
                 isAutoLoadingEnabled, loadingMore, extendedMode, loadQueue, processingQueue,
                 clickTimeoutRef, tasks, loads, viewportTimers, generation>>

\* The 300 ms timer of handleNodeClick fires.
P4_ClickTimer ==
  /\ clickTimerRef # Null
  /\ IF clickCountRef = 1
     THEN selectedNode' = clickTimerRef /\ openModal' = TRUE
     ELSE UNCHANGED <<selectedNode, openModal>>
  /\ clickNodeRef' = NoNode
  /\ clickCountRef' = 0
  /\ clickTimerRef' = Null
  /\ clickSeq' = IF clickCountRef = 1 THEN Emitted(clickSeq, clickTimerRef.id, "select")
                 ELSE Ended(clickSeq)
  /\ last' = Op("ClickTimer", NoNode)
  /\ UNCHANGED mergeVars
  /\ UNCHANGED <<graphData, centerImage, loading, error, expandedNodes, isAutoLoadingEnabled,
                 loadingMore, extendedMode, loadQueue, processingQueue, clickTimeoutRef, tasks,
                 loads, viewportTimers, generation>>

\* The await fetch of fetchData resolves.
P4_LoadResponse ==
  \E i \in DOMAIN loads, ok \in BOOLEAN :
    LET apiData == IF loads[i].extended THEN P4_ExtendedNeighborsResponse(loads[i].center)
                   ELSE NeighborsResponse(loads[i].center)
        centerNode == FindCenter(apiData.nodes)
    IN  /\ loads[i].stage = "fetch"
        /\ IF ok
           THEN /\ expandedNodes' = IF centerNode # Null THEN {centerNode.id} ELSE expandedNodes
                /\ loads' = [loads EXCEPT ![i].stage = "preload", ![i].data = InitialGraph(apiData)]
                /\ UNCHANGED <<error, loading>>
           ELSE /\ error' = TRUE
                /\ loading' = FALSE
                /\ loads' = RemoveAt(loads, i)
                /\ UNCHANGED expandedNodes
        /\ last' = Op("LoadResponse", NoNode)
        /\ UNCHANGED <<graphData, centerImage, openModal, selectedNode, isAutoLoadingEnabled,
                       loadingMore, extendedMode, loadQueue, processingQueue, clickTimeoutRef,
                       clickRefs, clickSeq, mergeVars, tasks, viewportTimers, generation>>

\* A session of the part_004 component in the mode it starts in; it installs
\* the loaded graph and clears the graph with the statements of
\* ImageSimilarityExplorer.js.
NextP4 ==
  \/ P4_FetchComplete
  \/ P4_TimerFire
  \/ P4_ViewportChange
  \/ P4_handleNodeClick
  \/ P4_ClickTimer
  \/ P4_LoadResponse
  \/ LoadInstall
  \/ clearGraph

SpecP4 == Init /\ [][NextP4]_vars

\* ============================================================ the merges
\* The two merges as functions: a graph and a response are drawn, and the
\* merge is applied to the graph and then to its own result.
MergeIds == 3
MergeLen == 2

\* The merge inlined in processLoadQueue of config.js.
InlineMerge(currentData, data) ==
  LET RECURSIVE AddNodes(_, _), AddLinks(_, _)
      AddNodes(acc, i) ==
        IF i > Len(data.nodes) THEN acc
        ELSE LET node == data.nodes[i]
             IN  AddNodes(IF node.id \in Ids(acc) THEN acc
                          ELSE Append(acc, Node(node.id, FALSE,
                                                IF node.level # NoLevel THEN node.level ELSE 1)),
                          i + 1)
      AddLinks(acc, i) ==
        IF i > Len(data.edges) THEN acc
        ELSE LET edge == data.edges[i]
             IN  AddLinks(IF edge.id \in Ids(acc) THEN acc ELSE Append(acc, edge), i + 1)
  IN  [nodes |-> AddNodes(currentData.nodes, 1), links |-> AddLinks(currentData.links, 1)]

SeqsUpTo(S, n) == UNION {[1..k -> S] : k \in 0..n}

\* Response nodes as the server sends them, and the queried node flagged as center.
MergeNodes == {Node(n, FALSE, NoLevel) : n \in 1..MergeIds} \cup {Node(1, TRUE, 0)}
MergeEdges == {Edge(1, t) : t \in 2..MergeIds} \cup {Edge(2, MergeIds)}

\* Graphs hold each id once; a response is any list of nodes, duplicates and
\* ids of the graph included, with at most one edge.
MergeGraphs ==
  {[nodes |-> ns, links |-> ls] :
     ns \in {x \in SeqsUpTo({Node(n, FALSE, 1) : n \in 1..MergeIds}, MergeLen) : NoDupIds(x)},
     ls \in SeqsUpTo(MergeEdges, 1)}

MergeResponses ==
  {[nodes |-> ns, edges |-> es] :
     ns \in SeqsUpTo(MergeNodes, MergeLen), es \in SeqsUpTo(MergeEdges, 1)}

InitMerge ==
  /\ InitClient
  /\ mergeArgs \in {[fn |-> f, currentData |-> g, newData |-> d] :
                      f \in {"mergeGraphData", "InlineMerge"}, g \in MergeGraphs,
                      d \in MergeResponses}
  /\ merged = <<mergeArgs.currentData>>

ApplyMergeGraphData ==
  /\ mergeArgs.fn = "mergeGraphData"
  /\ Len(merged) < 3
  /\ merged' = Append(merged, mergeGraphData(merged[Len(merged)], mergeArgs.newData))
  /\ last' = Op("mergeGraphData", NoNode)
  /\ UNCHANGED <<graphData, centerImage, loading, error, openModal, selectedNode, expandedNodes,
                 isAutoLoadingEnabled, loadingMore, extendedMode, loadQueue, processingQueue,
                 clickTimeoutRef, clickRefs, clickSeq, mergeArgs, tasks, loads, viewportTimers, generation>>

ApplyInlineMerge ==
  /\ mergeArgs.fn = "InlineMerge"
  /\ Len(merged) < 3
  /\ merged' = Append(merged, InlineMerge(merged[Len(merged)], mergeArgs.newData))
  /\ last' = Op("InlineMerge", NoNode)
  /\ UNCHANGED <<graphData, centerImage, loading, error, openModal, selectedNode, expandedNodes,
                 isAutoLoadingEnabled, loadingMore, extendedMode, loadQueue, processingQueue,
                 clickTimeoutRef, clickRefs, clickSeq, mergeArgs, tasks, loads, viewportTimers, generation>>

NextMerge ==
  \/ ApplyMergeGraphData
  \/ ApplyInlineMerge

SpecMerge == InitMerge /\ [][NextMerge]_vars

\* ======================================================== the traversal
\* Traverse as a function of its arguments, over the similarity store.
MaxDepth == 3
MaxLimit == 2
MaxCap == 5

\* Thresholds in tenths: 0 and 11 lie outside (0, 1].
Thresholds == {0, 5, 10, 11}

ValidArguments(args) ==
  /\ args.threshold > 0 /\ args.threshold <= 10
  /\ args.depth >= 1 /\ args.depth <= MaxDepth

Rejected(status, queried) ==
  [status |-> status, queried |-> queried, nodes |-> << >>, edges |-> << >>]

\* Traverse looking the center up before it validates its arguments.
TraverseCallLookupFirst(args) ==
  IF args.center \notin DOMAIN Store THEN Rejected("NotFound", TRUE)
  ELSE IF ~ValidArguments(args) THEN Rejected("InvalidArgument", TRUE)
  ELSE LET g == Traverse(args.center, args.depth, args.limit, args.maxNodes)
       IN  [status |-> "ok", queried |-> TRUE, nodes |-> g.nodes, edges |-> g.edges]

\* A call of Traverse: the arguments are validated, then the center is looked up in the
\* store, then the traversal runs.
TraverseCall(args) ==
  IF ~ValidArguments(args) THEN Rejected("InvalidArgument", FALSE)
  ELSE IF args.center \notin DOMAIN Store THEN Rejected("NotFound", TRUE)
  ELSE LET g == Traverse(args.center, args.depth, args.limit, args.maxNodes)
       IN  [status |-> "ok", queried |-> TRUE, nodes |-> g.nodes, edges |-> g.edges]

InitTraverse ==
  /\ InitClient
  /\ mergeArgs \in {[fn |-> "Traverse", center |-> c, threshold |-> t, depth |-> d,
                      limit |-> l, maxNodes |-> m] :
                      c \in 1..(NumImages + 1), t \in Thresholds, d \in 0..(MaxDepth + 1),
                      l \in 1..MaxLimit, m \in 1..MaxCap}
  /\ merged = << >>

ApplyTraverse ==
  /\ mergeArgs.fn = "Traverse"
  /\ merged = << >>
  /\ merged' = <<TraverseCall(mergeArgs)>>
  /\ last' = Op("Traverse", mergeArgs.center)
  /\ UNCHANGED <<graphData, centerImage, loading, error, openModal, selectedNode, expandedNodes,
                 isAutoLoadingEnabled, loadingMore, extendedMode, loadQueue, processingQueue,
                 clickTimeoutRef, clickRefs, clickSeq, mergeArgs, tasks, loads, viewportTimers,
                 generation>>

NextTraverse == ApplyTraverse

SpecTraverse == InitTraverse /\ [][NextTraverse]_vars

\* ================================================================ claims
Count(n, q) == Cardinality({i \in DOMAIN q : q[i] = n})

Fetching == {i \in DOMAIN tasks : tasks[i].kind = "fetch"}

\* Task i of the next state is a fetch this step issued.
Issued(i) ==
  /\ i \in DOMAIN tasks'
  /\ tasks'[i].kind = "fetch"
  /\ (i \in DOMAIN tasks => tasks[i] # tasks'[i])

\* Task i is a fetch that this step completes.
Completed(i) ==
  /\ last'.op = "FetchComplete"
  /\ tasks[i].kind = "fetch"
  /\ i \in DOMAIN tasks'
  /\ tasks'[i] # tasks[i]

IsPrefix(s, t) == Len(s) <= Len(t) /\ SubSeq(t, 1, Len(s)) = s

\* C1: an expansion fetch issued under one center image and completed after
\* the center image has changed is not merged: the completion leaves the
\* Graph as it was.
C1_StaleDrop ==
  [][\A i \in DOMAIN tasks :
       (Completed(i) /\ tasks[i].center # centerImage /\ tasks[i].gen # generation)
         => (tasks'[i].result # "merged" /\ graphData' = graphData)]_vars

\* C2: at any time at most one expansion fetch issued by processLoadQueue is
\* in flight.
C2_SingleFlight == Cardinality(Fetching) <= 1

\* C3: merging a response into the result of merging it into a graph gives
\* the graph the first merge gave, for mergeGraphData and for the inline merge.
C3_MergeIdempotent == Len(merged) = 3 => merged[3] = merged[2]

\* C3 witness: a response that shares an id with the graph and brings a new
\* one has been merged twice.
C3_Witness ==
  /\ Len(merged) = 3
  /\ merged[2] # merged[1]
  /\ Ids(mergeArgs.newData.nodes) \cap Ids(merged[1].nodes) # {}
  /\ Len(mergeArgs.newData.edges) > 0

\* C4: no two nodes of the Graph share an id and no two edges share an id.
C4_UniqueIds == NoDupIds(graphData.nodes) /\ NoDupIds(graphData.links)

\* C4 witness: an expansion merge has added nodes and edges to a bootstrapped Graph.
C4_Witness ==
  /\ last.op = "FetchComplete"
  /\ \E i \in DOMAIN tasks :
       /\ tasks[i].result = "merged"
       /\ Len(graphData.nodes) > Len(tasks[i].cl.graphData.nodes)
       /\ Len(graphData.links) > Len(tasks[i].cl.graphData.links)
       /\ Len(tasks[i].cl.graphData.links) > 0

\* C5: the Graph never holds more than maxNodesLimit nodes.
C5_NodeCountBounded == Len(graphData.nodes) <= MaxNodesLimit

\* C6: when the continuation of processLoadQueue is about to dequeue and the
\* Graph holds maxNodesLimit nodes or more, the queue is cleared, processing
\* halts and no fetch is issued.
C6_BudgetHalts ==
  [][(last'.op = "TimerFire" /\ loadQueue # << >> /\ Len(graphData.nodes) >= MaxNodesLimit)
       => (loadQueue' = << >> /\ ~processingQueue' /\ \A i \in DOMAIN tasks' : ~Issued(i))]_vars

\* C7: no node id appears twice in loadQueue.
C7_NoDupQueue == NoDup(loadQueue)

\* C8: an id in expandedNodes is never added to loadQueue.
C8_ExpandedNotQueued ==
  [][\A n \in expandedNodes : Count(n, loadQueue') <= Count(n, loadQueue)]_vars

\* C9: a double-clicked node id enters loadQueue at the front (or is dequeued
\* at once when the queue was idle), every other handler adds ids at the back
\* only, and ids leave from the front only: the double-clicked id is dequeued
\* before every id that was queued when it arrived.
C9_DoubleClickPriority ==
  [][LET n == last'.node
     IN  IF last'.op = "handleNodeDoubleClick"
         THEN IF processingQueue
              THEN loadQueue' = <<n>> \o loadQueue
              ELSE \/ loadQueue' = << >> /\ ~processingQueue'
                   \/ /\ loadQueue' = loadQueue
                      /\ Len(tasks') = Len(tasks) + 1
                      /\ tasks'[Len(tasks')].nodeId = n
         ELSE \/ loadQueue' = << >>
              \/ IsPrefix(loadQueue, loadQueue')
              \/ loadQueue # << >> /\ IsPrefix(Tail(loadQueue), loadQueue')]_vars

\* C9 witness: a not yet expanded node was double-clicked while another id
\* waited in the queue, and stands in front of it.
C9_Witness ==
  /\ last.op = "handleNodeDoubleClick"
  /\ last.node \notin expandedNodes
  /\ Len(loadQueue) >= 2
  /\ loadQueue[1] = last.node
  /\ loadQueue[2] # last.node

\* C10: a failed expansion fetch leaves the Graph, expandedNodes and the
\* queue as they were and leaves the continuation timer pending; when that
\* timer fires with ids queued, the head is dequeued and processing goes on.
C10_FailureHandling ==
  [][/\ \A i \in DOMAIN tasks :
          (Completed(i) /\ tasks'[i].result = "failed")
            => /\ graphData' = graphData
               /\ expandedNodes' = expandedNodes
               /\ loadQueue' = loadQueue
               /\ processingQueue'
               /\ tasks'[i].kind = "timer"
     /\ \A i \in DOMAIN tasks :
          (/\ last'.op = "TimerFire"
           /\ tasks[i].kind = "timer"
           /\ tasks[i].result = "failed"
           /\ Len(tasks) = 1
           /\ loadQueue # << >>)
            => /\ loadQueue' = Tail(loadQueue)
               /\ processingQueue'
               /\ Len(tasks') = 1]_vars

\* C10 witness: a fetch has failed, its continuation timer is pending, and a
\* later viewport pass has queued the failed, still unexpanded node again.
C10_Witness ==
  /\ last.op = "handleViewportChange"
  /\ \E i \in DOMAIN tasks :
       /\ tasks[i].result = "failed"
       /\ tasks[i].kind = "timer"
       /\ tasks[i].nodeId \notin expandedNodes
       /\ tasks[i].nodeId \in Range(loadQueue)
       /\ graphData = tasks[i].cl.graphData

\* C11: while the center image stays the same, no step removes an id from
\* expandedNodes.
C11_ExpandedAppendOnly ==
  [][centerImage' = centerImage => expandedNodes \subseteq expandedNodes']_vars


\* C12: two clicks on one node with the single-click timer still pending yield one expand event
\* and no select event; a click sequence of one click that has ended yielded one select event.
C12_ClickDisambiguation ==
  /\ clickSeq.clicks >= 2 => "select" \notin Range(clickSeq.events)
  /\ ~clickSeq.open /\ clickSeq.clicks >= 2 => clickSeq.events = <<"expand">>
  /\ ~clickSeq.open /\ clickSeq.clicks = 1 => clickSeq.events = <<"select">>

\* C13: a click sequence never emits more than one event, a sequence that has ended emitted
\* exactly one of select and expand, and a sequence under way has its timer pending.
C13_ExactlyOneEvent ==
  /\ Len(clickSeq.events) <= 1
  /\ ~clickSeq.open /\ clickSeq.clicks > 0 =>
       clickSeq.events \in {<<"select">>, <<"expand">>}
  /\ clickSeq.open => clickTimerRef # Null /\ clickTimerRef.id = clickSeq.node

\* A double click has been answered with expand after an earlier single click opened the
\* modal.
C13_Witness ==
  /\ ~clickSeq.open
  /\ clickSeq.events = <<"expand">>
  /\ selectedNode # Null

\* The ids reachable from the ids of set over the links, taken in either direction.
RECURSIVE Reach(_, _)
Reach(links, set) ==
  LET next == set \cup {l.target : l \in {m \in Range(links) : m.source \in set}}
                  \cup {l.source : l \in {m \in Range(links) : m.target \in set}}
  IN  IF next = set THEN set ELSE Reach(links, next)

CenterIds(g) == {n.id : n \in {m \in Range(g.nodes) : m.isCenter}}

Connected(g) == Ids(g.nodes) \subseteq Reach(g.links, CenterIds(g))

C15_EdgeEndpoints ==
  \A l \in Range(graphData.links) :
    l.source \in Ids(graphData.nodes) /\ l.target \in Ids(graphData.nodes)

\* An expansion after a clearGraph has added links to the graph.
C15_Witness ==
  /\ last.op = "FetchComplete"
  /\ expandedNodes # {}
  /\ centerImage \notin expandedNodes
  /\ graphData.links # << >>

LoadResult(load) ==
  IF load.extended THEN ExtendedNeighborsResponse(load.center)
  ELSE NeighborsResponse(load.center)

\* C17: the step that installs a load's result leaves the graph equal to the result of the
\* initial request and expandedNodes equal to the set of the center's id alone.
C17_Bootstrap ==
  [][\A i \in DOMAIN loads :
       loads[i].stage = "preload" /\ last'.op = "LoadInstall" /\ loads' = RemoveAt(loads, i) =>
         /\ graphData' = InitialGraph(LoadResult(loads[i]))
         /\ expandedNodes' = {loads[i].center}]_vars

\* C18: the step that changes the center leaves the graph without nodes, and while the load
\* of that center is awaited no step puts a node into the graph other than the step that
\* installs the load's result.
C18_FreshGraph ==
  [][/\ centerImage' # centerImage => graphData'.nodes = << >>
     /\ loads # << >> /\ graphData.nodes = << >> /\ last'.op # "LoadInstall" =>
          graphData'.nodes = << >>]_vars

\* The traversal has returned.
Traversed == mergeArgs.fn = "Traverse" /\ merged # << >> /\ merged[1].status = "ok"

\* C19: the nodes Traverse returns have distinct ids and are at most maxNodes, the center
\* among them; they are the first maxNodes nodes of the traversal without a cap.
C19_TraverseBounded ==
  Traversed =>
    /\ NoDupIds(merged[1].nodes)
    /\ Len(merged[1].nodes) <= mergeArgs.maxNodes
    /\ mergeArgs.center \in Ids(merged[1].nodes)
    /\ merged[1].nodes =
         Prefix(Traverse(mergeArgs.center, mergeArgs.depth, mergeArgs.limit, NumImages).nodes,
                mergeArgs.maxNodes)

\* The cap has cut a traversal short: without it more nodes are returned.
C19_Witness ==
  /\ Traversed
  /\ Len(merged[1].nodes) = mergeArgs.maxNodes
  /\ Len(Traverse(mergeArgs.center, mergeArgs.depth, mergeArgs.limit, NumImages).nodes) >
       mergeArgs.maxNodes
  /\ mergeArgs.maxNodes > 1

\* The least number of edges of g on a path from the ids of set to id n, counting from k;
\* NoLevel when there is no path.
RECURSIVE Hops(_, _, _, _)
Hops(g, set, n, k) ==
  LET next == set \cup {e.target : e \in {f \in Range(g.edges) : f.source \in set}}
                  \cup {e.source : e \in {f \in Range(g.edges) : f.target \in set}}
  IN  IF n \in set THEN k
      ELSE IF next = set THEN NoLevel
      ELSE Hops(g, next, n, k + 1)

\* C20: the level of every returned node is the least number of returned edges on a path from
\* the center to it, the center has level 0 and no level exceeds depth.
C20_LevelIsDistance ==
  Traversed =>
    \A i \in DOMAIN merged[1].nodes :
      LET n == merged[1].nodes[i]
      IN  /\ n.level = Hops(merged[1], {mergeArgs.center}, n.id, 0)
          /\ n.level <= mergeArgs.depth
          /\ n.id = mergeArgs.center => n.level = 0

\* The edges of g that discovered a node: for every node but the center, the first edge that
\* has it as its target.
Discovering(g) ==
  {i \in DOMAIN g.edges :
     /\ \E j \in DOMAIN g.nodes : g.nodes[j].id = g.edges[i].target /\ ~g.nodes[j].isCenter
     /\ \A k \in 1..(i - 1) : g.edges[k].target # g.edges[i].target}

RECURSIVE Power(_, _)
Power(b, e) == IF e = 0 THEN 1 ELSE b * Power(b, e - 1)

\* C21: no parent is the source of more than limitPerLevel discovering edges, level L holds at
\* most limitPerLevel^L nodes, and the total is at most maxNodes.
C21_Fanout ==
  Traversed =>
    /\ \A p \in Ids(merged[1].nodes) :
         Cardinality({i \in Discovering(merged[1]) : merged[1].edges[i].source = p})
           <= mergeArgs.limit
    /\ \A L \in 0..mergeArgs.depth :
         Cardinality({j \in DOMAIN merged[1].nodes : merged[1].nodes[j].level = L})
           <= Power(mergeArgs.limit, L)
    /\ Len(merged[1].nodes) <= mergeArgs.maxNodes

\* A parent with more unvisited neighbours than limitPerLevel was held to limitPerLevel while
\* the cap on the total was not reached.
C21_Witness ==
  /\ Traversed
  /\ Len(merged[1].nodes) < mergeArgs.maxNodes
  /\ \E p \in Ids(merged[1].nodes) :
       /\ Cardinality({i \in Discovering(merged[1]) : merged[1].edges[i].source = p})
            = mergeArgs.limit
       /\ \E n \in Range(Ranked(p)) : n \notin Ids(merged[1].nodes)

C23_MonotonicGrowth ==
  [][\A i \in DOMAIN tasks :
       /\ Completed(i) /\ tasks'[i].result = "merged" /\ tasks[i].gen = generation
       /\ Ids(tasks[i].cl.graphData.nodes) \subseteq Ids(graphData.nodes)
       /\ Ids(tasks[i].cl.graphData.links) \subseteq Ids(graphData.links)
       =>
         /\ Ids(graphData.nodes) \subseteq Ids(graphData'.nodes)
         /\ Ids(graphData.links) \subseteq Ids(graphData'.links)]_vars

\* C24: a successful expansion marks its node as expanded, and the completion of a fetch
\* issued before the last Reset adds no id to expandedNodes.
C24_ExpandedOfSession ==
  [][\A i \in DOMAIN tasks :
       Completed(i) /\ tasks'[i].result = "merged" =>
         /\ tasks[i].nodeId \in expandedNodes' \/ tasks[i].gen # generation
         /\ tasks[i].gen # generation => expandedNodes' = expandedNodes]_vars

\* C25: once no load is pending and none has failed, the graph installed is that of the
\* center chosen last and expandedNodes holds that center alone.
C25_LatestCenterWins ==
  loads = << >> /\ ~error =>
    /\ CenterIds(graphData) = {centerImage}
    /\ expandedNodes = {centerImage}

\* C26: clearGraph leaves an empty queue and at most the center node with no links, and an
\* expansion completing in the same session adds only nodes and links of its own response to
\* the graph it finds, so it brings back nothing clearGraph removed.
C26_ClearIsFinal ==
  [][/\ last'.op = "clearGraph" =>
          loadQueue' = << >> /\ Len(graphData'.nodes) <= 1 /\ graphData'.links = << >>
     /\ \A i \in DOMAIN tasks :
          Completed(i) /\ tasks'[i].result = "merged" /\ tasks[i].gen = generation =>
            /\ Ids(graphData'.nodes) \subseteq
                 Ids(graphData.nodes) \cup Ids(NeighborsResponse(tasks[i].nodeId).nodes)
            /\ Ids(graphData'.links) \subseteq
                 Ids(graphData.links) \cup Ids(NeighborsResponse(tasks[i].nodeId).edges)]_vars

\* C27: processLoadQueue issues no fetch for an id that is in expandedNodes.
C27_NoRefetch ==
  [][\A i \in DOMAIN tasks' : Issued(i) => tasks'[i].nodeId \notin expandedNodes]_vars

\* The continuation timers of processLoadQueue that are pending.
Timers == {i \in DOMAIN tasks : tasks[i].kind \in {"timer", "timerG"}}

\* C28: no step leaves more continuation timers pending than it found, but for one; at most
\* one is pending at any time.
C28_OneContinuation ==
  [][/\ Cardinality({i \in DOMAIN tasks' : tasks'[i].kind \in {"timer", "timerG"}})
          <= Cardinality(Timers) + 1
     /\ Cardinality({i \in DOMAIN tasks' : tasks'[i].kind \in {"timer", "timerG"}}) <= 1]_vars

\* C30: while processingQueue is set a fetch of processLoadQueue is in flight or one of its
\* timers is pending, and while the queue holds an id processingQueue is set.
C30_FlagConsistency ==
  /\ processingQueue => Fetching # {} \/ Timers # {}
  /\ loadQueue # << >> => processingQueue

\* An id waits in the queue while the timer of the running processLoadQueue is pending.
C30_Witness ==
  /\ processingQueue
  /\ loadQueue # << >>
  /\ Timers # {}
  /\ Fetching = {}

\* A step of the scheduler or of a pending load, as opposed to a step the user takes.
SchedulerStep == last'.op \in {"FetchComplete", "TimerFire", "LoadResponse", "LoadInstall"}

Idle == loadQueue = << >> /\ ~processingQueue /\ ~loadingMore

SpecTimers == Spec /\ WF_vars(TimerFire)

\* C31: every expansion fetch is resolved, answered or not: an item in flight
\* leaves the in-flight state (merged or failed) though the server never responds.
C31_FetchTimesOut == (Fetching # {}) ~> (Fetching = {})

\* ------------------------------------------------------ viewport passes
\* The debounced handler: an event arms the handler of the render it happened
\* in, which runs 300 ms (after the graphData effect, 800 ms) later, when
\* fetches may have completed and the component rendered again.
NextViewport ==
  \/ LoadResponse
  \/ LoadInstall
  \/ ToggleExtendedMode
  \/ ViewportEvent
  \/ ViewportTimer
  \/ ViewportChange
  \/ handleNodeDoubleClick
  \/ toggleAutomaticLoading
  \/ FetchComplete
  \/ TimerFire

SpecViewport == Init /\ [][NextViewport]_vars

\* Position of id n in the node array.
IndexOf(nodes, n) == CHOOSE i \in DOMAIN nodes : nodes[i].id = n

\* add is a batch a viewport pass may append in the current state: at most
\* ViewportBatch ids of Graph nodes, none expanded, none queued, in node order.
ViewportBatchOk(add) ==
  /\ Len(add) <= ViewportBatch
  /\ \A i \in DOMAIN add :
       /\ add[i] \in Ids(graphData.nodes)
       /\ add[i] \notin expandedNodes
       /\ add[i] \notin Range(loadQueue)
  /\ \A i, j \in DOMAIN add :
       i < j => IndexOf(graphData.nodes, add[i]) < IndexOf(graphData.nodes, add[j])

\* C32: a viewport pass appends to the back of loadQueue at most ViewportBatch
\* ids, each the id of a Graph node that is neither expanded nor queued, in
\* node order (the pass may then dequeue the head, or clear the queue on budget).
C32_ViewportAppend ==
  [][last'.op = "handleViewportChange"
     => \/ loadQueue' = << >> /\ ~processingQueue' /\ ~processingQueue
        \/ \E full \in {loadQueue'} \cup {<<h>> \o loadQueue' : h \in NodeIds} :
             /\ IsPrefix(loadQueue, full)
             /\ full # loadQueue' => ~processingQueue
             /\ ViewportBatchOk(SubSeq(full, Len(loadQueue) + 1, Len(full)))]_vars

\* C33: with auto-loading disabled, extended mode on or an empty Graph, a
\* viewport pass leaves the queue alone and starts no processing; enabling
\* auto-loading with a non-empty queue and an idle scheduler starts processing.
C33_ViewportGuard ==
  [][/\ (last'.op = "handleViewportChange"
         /\ (~isAutoLoadingEnabled \/ extendedMode \/ Len(graphData.nodes) = 0))
        => UNCHANGED <<loadQueue, processingQueue, loadingMore, tasks>>
     /\ (last'.op = "toggleAutomaticLoading" /\ isAutoLoadingEnabled'
         /\ loadQueue # << >> /\ ~processingQueue)
        => (processingQueue' \/ loadQueue' = << >>)]_vars

\* C34: a click on another node M while a single click on N is armed re-targets
\* the one pending timer to M and emits nothing for N; the timer, when it
\* fires, emits select for its target only and no expand.
C34_RetargetClick ==
  [][/\ (last'.op = "handleNodeClick" /\ clickTimeoutRef # Null
         /\ clickTimeoutRef.id # last'.node)
        => /\ clickTimeoutRef'.id = last'.node
           /\ clickSeq.events = << >>
           /\ clickSeq' = [node |-> last'.node, clicks |-> 1, open |-> TRUE,
                           events |-> << >>, replaced |-> clickTimeoutRef.id]
           /\ UNCHANGED <<selectedNode, openModal, loadQueue, tasks>>
     /\ last'.op = "ClickTimeout"
        => /\ selectedNode'.id = clickTimeoutRef.id
           /\ clickTimeoutRef' = Null
           /\ clickSeq.replaced # NoNode
              => (clickSeq'.node = clickTimeoutRef.id /\ clickSeq'.events = <<"select">>)
           /\ UNCHANGED <<loadQueue, tasks>>]_vars

\* The timer re-targeted from another node has fired and selected its node.
C34_Witness ==
  /\ last.op = "ClickTimeout"
  /\ clickSeq.replaced \notin {NoNode, clickSeq.node}
  /\ clickSeq.clicks = 1
  /\ clickSeq.events = <<"select">>
  /\ selectedNode.id = clickSeq.node
  /\ openModal

\* ------------------------------------------------- merges of one response
\* The node a response is attributed to: the queried node, which the server
\* flags as center.
SourceNode(data) == FindCenter(data.nodes)

\* Ids of the nodes of data that a merge into g accepts as new.
Accepted(g, data) == Ids(data.nodes) \ Ids(g.nodes)

Joined(g, a, b) ==
  \E i \in DOMAIN g.links : {g.links[i].source, g.links[i].target} = {a, b}

\* C35: after a merge the Graph holds an edge between sourceNodeId and every
\* newly accepted node, supplied by the partial result or synthesized.
C35_MergeConnects ==
  \A k \in 2..Len(merged) :
    LET src == SourceNode(mergeArgs.newData)
    IN  /\ mergeArgs.fn \in {"mergeGraphData", "InlineMerge"}
        /\ src.id \in Ids(merged[k - 1].nodes)
        => \A n \in Accepted(merged[k - 1], mergeArgs.newData) :
             Joined(merged[k], src.id, n)

\* The node of id n in a node array.
NodeOf(nodes, n) == nodes[IndexOf(nodes, n)]

\* C36: a newly added node whose partial result annotates no level gets the
\* level of the expanded node plus one.
C36_MergeLevel ==
  \A k \in 2..Len(merged) :
    LET src == SourceNode(mergeArgs.newData)
    IN  /\ mergeArgs.fn \in {"mergeGraphData", "InlineMerge"}
        /\ src.id \in Ids(merged[k - 1].nodes)
        => \A n \in Accepted(merged[k - 1], mergeArgs.newData) :
             NodeOf(mergeArgs.newData.nodes, n).level = NoLevel
             => NodeOf(merged[k].nodes, n).level = NodeOf(merged[k - 1].nodes, src.id).level + 1

\* next keeps every node and link of prev as it is and adds only new ids.
OnlyAdds(prev, next) ==
  /\ IsPrefix(prev.nodes, next.nodes)
  /\ IsPrefix(prev.links, next.links)
  /\ \A i \in (Len(prev.nodes) + 1)..Len(next.nodes) : next.nodes[i].id \notin Ids(prev.nodes)
  /\ \A i \in (Len(prev.links) + 1)..Len(next.links) : next.links[i].id \notin Ids(prev.links)

\* C37: the merge of an expansion's response removes and modifies no node and
\* no edge of the Graph; it only adds nodes and edges whose ids the Graph lacks.
C37_MergeOnlyAdds ==
  [][last'.op = "FetchComplete" => OnlyAdds(graphData, graphData')]_vars

\* ------------------------------------------------- failed initial loads
\* The loads of ls that have passed their fetch and await their preloads.
Preloading(ls) == Cardinality({i \in DOMAIN ls : ls[i].stage = "preload"})

\* C38: a failed initial load sets the error state and clears the loading
\* indicator; the load is over (no retry is issued) and nothing is enqueued,
\* fetched, merged or marked expanded for its center.
C38_LoadFailure ==
  [][(last'.op = "LoadResponse" /\ Preloading(loads') = Preloading(loads))
     => /\ error'
        /\ ~loading'
        /\ Len(loads') = Len(loads) - 1
        /\ UNCHANGED <<generation, centerImage, graphData, expandedNodes, loadQueue,
                       processingQueue, loadingMore, tasks>>]_vars

\* The load of the mounted center has failed: the error is shown, nothing is
\* loading, no load is pending and the queue is empty.
C38_Witness ==
  /\ last.op = "LoadResponse"
  /\ error
  /\ ~loading
  /\ loads = << >>
  /\ graphData = EmptyGraph
  /\ loadQueue = << >>
  /\ tasks = << >>

\* ---------------------------------------------------------------- pacing
\* A completed item's continuation timer is pending.
Pacing ==
  \E i \in DOMAIN tasks :
    tasks[i].kind \in {"timer", "timerG"} /\ tasks[i].result \in {"merged", "failed"}

\* This step issues a /neighbors fetch for a dequeued item.
IssuesFetch ==
  Cardinality({i \in DOMAIN tasks' : tasks'[i].kind = "fetch"}) > Cardinality(Fetching)

\* C39: the step that completes an item dequeues nothing and issues no fetch,
\* and the next fetch after a completion, or while the continuation timer of a
\* completed item is pending, is issued by a timer step.
C39_Pacing ==
  [][/\ last'.op = "FetchComplete" => (loadQueue' = loadQueue /\ ~IssuesFetch)
     /\ ((Pacing \/ last.op = "FetchComplete") /\ IssuesFetch)
        => last'.op = "TimerFire"]_vars

====
